---- MODULE Spec2Model ----
(***************************************************************************)
(* A model of the VeriGPT service: the FastAPI application of              *)
(* app/main.py (and its older variant main.py), the prompt loader of       *)
(* app/prompt.py, the FAISS index build of build_index.py and              *)
(* app/build_index.py, the corpus loader and the chunker of                *)
(* verigpt_agent.py, and the PromptBank of app/prompt_bank.py.             *)
(*                                                                         *)
(* The chunker is langchain's RecursiveCharacterTextSplitter, modelled at  *)
(* a scaled-down window (chunk_size, chunk_overlap) over a small alphabet  *)
(* that holds every separator of the configured list.                      *)
(*                                                                         *)
(* Text is modelled as a sequence of string pieces; an empty Python        *)
(* string is the empty sequence.  External libraries (OpenAI client,       *)
(* embeddings, FAISS, the chat completion) appear as calls whose outcome   *)
(* the environment chooses.                                                *)
(***************************************************************************)
EXTENDS Integers, Sequences, FiniteSets, TLC

VARIABLES
    variant,        \* which service module runs: "app" (app/main.py) or "root" (main.py)
    keySet,         \* OPENAI_API_KEY is set (non-empty) in the environment
    indexDir,       \* data/faiss_index on disk: [state, chunks]
    promptsDir,     \* the prompts/ directory exists
    templates,      \* prompts/<name>.md: name -> [exists, text]
    corpus,         \* data/raw_full on disk: [exists, present, unreadable]
    phase,          \* the service process: "init", "serving" or "crashed"
    crashAt,        \* source line of the module-level statement that raised, 0 if none
    client,         \* module global client (app/main.py:22) is bound
    vectorstore,    \* module global vectorstore: [loaded, chunks]
    AGENT_READY,    \* module global AGENT_READY
    req,            \* the query requests in flight: request id -> record
    health,         \* last answer of GET /health
    files,          \* last answer of GET /files
    stats,          \* last answer of GET /stats
    build,          \* the build_index run: [variant, pc, docs, chunks, error]
    load,           \* the load_sv_files_from_data call: [pc, order, result]
    split,          \* the chunker runs: [documents, done, all_chunks, chunks]
    bank,           \* the PromptBank object: its cache and its last call
    txtFiles        \* prompts/<name>.txt: name -> [exists, text]

vars == <<variant, keySet, indexDir, promptsDir, templates, corpus, phase, crashAt,
          client, vectorstore, AGENT_READY, req, health, files, stats, build, load,
          split, bank, txtFiles>>

(***************************************************************************)
(* Bounds of the model.                                                    *)
(***************************************************************************)
NumReq == 2
MaxChunks == 2
MaxTopK == 3

Reqs == 1..NumReq

(***************************************************************************)
(* Text helpers.                                                           *)
(***************************************************************************)
RECURSIVE Flatten(_)
Flatten(ss) == IF ss = <<>> THEN <<>> ELSE Head(ss) \o Flatten(Tail(ss))

Text(s) == IF s = "" THEN <<>> ELSE <<s>>

\* sep.join(parts), each part a text
RECURSIVE Join(_, _)
Join(sep, parts) ==
    IF parts = <<>> THEN <<>>
    ELSE IF Len(parts) = 1 THEN Head(parts)
    ELSE Head(parts) \o <<sep>> \o Join(sep, Tail(parts))

Range(s) == {s[i] : i \in DOMAIN s}

InjectiveSeqs(S, n) ==
    {s \in [1..n -> S] : \A i, j \in 1..n : i # j => s[i] # s[j]}

Min(a, b) == IF a < b THEN a ELSE b

(***************************************************************************)
(* The vector index.  A chunk document is what build_index split and       *)
(* FAISS stored: page_content and metadata {"source": file}.               *)
(***************************************************************************)
Chunk(i) ==
    [page_content |-> <<"t" \o ToString(i)>>,
     metadata |-> [source |-> "data/raw_full/m" \o ToString(i) \o ".sv"]]

IndexOf(n) == [i \in 1..n |-> Chunk(i)]

NoStore == [loaded |-> FALSE, chunks |-> <<>>]

\* data/faiss_index does not exist
NoDir == [state |-> "absent", chunks |-> <<>>]

\* FAISS.load_local on the index directory: the loaded store, or a raise.
load_local(dir) ==
    IF dir.state = "ok"
    THEN [raised |-> FALSE, store |-> [loaded |-> TRUE, chunks |-> dir.chunks]]
    ELSE [raised |-> TRUE, store |-> NoStore]

\* `not vectorstore` in agent_endpoint
NotVectorstore(vs) == ~vs.loaded

\* vectorstore.similarity_search(query, k): the results a nearest-neighbour
\* search may return: k <= 0 is refused by the search, otherwise the
\* min(k, N) nearest chunks, closest first, in whatever order the search
\* ranks them.
similarity_search(vs, k) ==
    IF k <= 0 THEN {}
    ELSE {[i \in 1..Min(k, Len(vs.chunks)) |-> vs.chunks[s[i]]] :
             s \in InjectiveSeqs(1..Len(vs.chunks), Min(k, Len(vs.chunks)))}

(***************************************************************************)
(* Prompt templates (app/prompt.py).  A template text is a sequence of     *)
(* pieces; the pieces in Placeholders are {name} fields.                   *)
(***************************************************************************)
Placeholders == {"context", "query", "other"}

NoFile == [exists |-> FALSE, text |-> <<>>]
File(t) == [exists |-> TRUE, text |-> t]

FieldsOf(text) == Range(text) \cap Placeholders

\* template.format(**params): every field replaced by its value
Format(text, params) ==
    Flatten([i \in DOMAIN text |->
                IF text[i] \in Placeholders THEN params[text[i]] ELSE <<text[i]>>])

\* get_prompt(prompt_fn, params): [error, text]
get_prompt(tmpl, prompt_fn, params) ==
    IF ~tmpl[prompt_fn].exists
    THEN [error |-> "FileNotFoundError", text |-> <<>>]
    ELSE IF ~(FieldsOf(tmpl[prompt_fn].text) \subseteq DOMAIN params)
    THEN [error |-> "KeyError", text |-> <<>>]
    ELSE [error |-> "", text |-> Format(tmpl[prompt_fn].text, params)]

EmptyParams == [p \in {} |-> <<>>]

(***************************************************************************)
(* The corpus directory data/raw_full.                                     *)
(***************************************************************************)
Paths == {"a.sv", "sub/b.svh", "c.sv", "notes.txt"}

Ext(p) == CASE p = "a.sv" -> "sv" [] p = "sub/b.svh" -> "svh"
            [] p = "c.sv" -> "sv" [] OTHER -> "txt"

\* st_size of each file, in bytes
Bytes(p) == CASE p = "a.sv" -> 1024 [] p = "sub/b.svh" -> 512
              [] p = "c.sv" -> 131072 [] OTHER -> 7

\* position of a path in Python's string order
PathRank(p) == CASE p = "a.sv" -> 1 [] p = "c.sv" -> 2
                 [] p = "notes.txt" -> 3 [] OTHER -> 4

NoCorpus == [exists |-> FALSE, present |-> {}, unreadable |-> {}]

Corpora ==
    {NoCorpus} \cup
    {c \in [exists : {TRUE}, present : SUBSET Paths, unreadable : SUBSET Paths] :
        c.unreadable \subseteq c.present}

\* glob.glob(data_path/**/*.ext, recursive=True), as a set
Glob(c, ext) == {p \in c.present : Ext(p) = ext}

\* sorted(paths)
sorted(S) ==
    CHOOSE s \in InjectiveSeqs(S, Cardinality(S)) :
        \A i, j \in 1..Cardinality(S) : i < j => PathRank(s[i]) < PathRank(s[j])

(***************************************************************************)
(* Module-level startup of the service (app/main.py:21-55, main.py:15-31). *)
(***************************************************************************)
\* OpenAI(api_key=...) and OpenAIEmbeddings(...): with a key the constructor
\* returns; without one the library decides whether it raises.
CtorOutcomes(key) == IF key THEN {"ok"} ELSE {"ok", "raise"}

\* a constructor that forgets the key test of verigpt_agent.py:51-52
VeriGPTAgent_init_NoKeyTest(key, pdir) ==
    IF ~pdir THEN "FileNotFoundError" ELSE ""

\* VeriGPTAgent.__init__ (verigpt_agent.py:48-60): raises ValueError without
\* a key, and PromptBank() raises when prompts/ is missing.
VeriGPTAgent_init(key, pdir) ==
    IF ~key THEN "ValueError"
    ELSE IF ~pdir THEN "FileNotFoundError"
    ELSE ""

\* try: agent = VeriGPTAgent(); AGENT_READY = True / except: AGENT_READY = False
AgentReadyAfterInit(key, pdir) == VeriGPTAgent_init(key, pdir) = ""

\* The first module-level statement that raises outside any try, as its
\* source line, or 0 when the import of the module completes.
StartupCrash(v, clientCtor, embCtor, dir) ==
    IF v = "app"
    THEN IF clientCtor = "raise" THEN 22
         ELSE IF embCtor = "raise" THEN 25
         ELSE IF load_local(dir).raised THEN 29
         ELSE 0
    ELSE IF embCtor = "raise" THEN 16
         ELSE IF load_local(dir).raised THEN 17
         ELSE 0

\* The store left in the global after app/main.py:29 and the guarded reload
\* of lines 32-45 (a failed reload keeps the earlier store).
StoreAfterStartup(dir) ==
    IF load_local(dir).raised THEN NoStore ELSE load_local(dir).store

Startup ==
    /\ phase = "init"
    /\ \E clientCtor \in CtorOutcomes(keySet), embCtor \in CtorOutcomes(keySet) :
         LET line == StartupCrash(variant, clientCtor, embCtor, indexDir) IN
         /\ crashAt' = line
         /\ phase' = IF line = 0 THEN "serving" ELSE "crashed"
         /\ client' = (line = 0 /\ variant = "app")
         /\ vectorstore' = IF line = 0 THEN StoreAfterStartup(indexDir) ELSE NoStore
         /\ AGENT_READY' = (line = 0 /\ AgentReadyAfterInit(keySet, promptsDir))
    /\ UNCHANGED <<split, bank, txtFiles>>
    /\ UNCHANGED <<variant, keySet, indexDir, promptsDir, templates, corpus,
                   req, health, files, stats, build, load>>

(***************************************************************************)
(* POST /agent (app/main.py:275-316, main.py:87-106).  A request is        *)
(* followed through the statements of agent_endpoint; the calls it makes   *)
(* to the vector store and to the chat completion are counted.             *)
(***************************************************************************)
DefaultTopK == 3

Queries == {"", "fifo"}

\* the top_k member of the request body: an integer, absent, or not an integer
TopKInputs ==
    {[kind |-> "int", val |-> k] : k \in -1..MaxTopK}
    \cup {[kind |-> "missing", val |-> 0], [kind |-> "bad", val |-> 0]}

\* AgentRequest: query: str, top_k: int = 3
AgentRequest(q, raw) ==
    [valid |-> raw.kind # "bad",
     query |-> q,
     top_k |-> IF raw.kind = "missing" THEN DefaultTopK ELSE raw.val]

IdleReq ==
    [pc |-> "idle", query |-> "", kind |-> "", top_k |-> 0, docs |-> <<>>,
     sysp |-> <<>>, userp |-> <<>>, at |-> "", status |-> 0, keys |-> {}, answer |-> "",
     sources |-> <<>>, rquery |-> "", rtop_k |-> 0, searches |-> 0, llm |-> 0]

Terminal == {"Answered", "Failed"}

\* raise HTTPException(status_code=code) / an exception reaching the framework:
\* the handler's locals are gone, the response carries the status; at keeps
\* the statement the request had reached
Fail(rec, code) ==
    [rec EXCEPT !.pc = "Failed", !.status = code, !.at = rec.pc,
                !.docs = <<>>, !.sysp = <<>>, !.userp = <<>>]

\* a return that, like main.py:103-106, leaves out the echo of the request
AgentResponse_NoEcho(rec, content) ==
    [rec EXCEPT !.pc = "Answered", !.status = 200,
                !.keys = {"answer", "sources"},
                !.answer = content,
                !.sources = [i \in DOMAIN rec.docs |-> rec.docs[i].metadata]]

\* the dictionary returned at app/main.py:308-313
AgentResponse(rec, content) ==
    [rec EXCEPT !.pc = "Answered", !.status = 200,
                !.keys = {"answer", "sources", "query", "top_k"},
                !.answer = content,
                !.sources = [i \in DOMAIN rec.docs |-> rec.docs[i].metadata],
                !.rquery = rec.query,
                !.rtop_k = rec.top_k]

\* A client posts to /agent.  A process whose import failed accepts no
\* connection; otherwise the body is validated against AgentRequest.
PostAgent(r, q, raw) ==
    /\ phase # "init"
    /\ req[r].pc = "idle"
    /\ \A o \in Reqs : o < r => req[o].pc # "idle"   \* requests are numbered as they arrive
    /\ LET a == AgentRequest(q, raw)
           rec == [req[r] EXCEPT !.query = q, !.kind = raw.kind, !.top_k = a.top_k]
       IN req' = [req EXCEPT ![r] =
                    IF phase = "crashed" THEN Fail(rec, 0)
                    ELSE IF ~a.valid THEN Fail(rec, 422)
                    ELSE [rec EXCEPT !.pc = "Received"]]
    /\ UNCHANGED <<split, bank, txtFiles>>
    /\ UNCHANGED <<variant, keySet, indexDir, promptsDir, templates, corpus, phase,
                   crashAt, client, vectorstore, AGENT_READY, health, files, stats,
                   build, load>>

\* app/main.py:278-282: if not vectorstore: raise HTTPException(503).
\* main.py has no such test.
GuardResult(v, vs, rec) ==
    IF v = "app" /\ NotVectorstore(vs) THEN Fail(rec, 503)
    ELSE [rec EXCEPT !.pc = "Retrieving"]

agent_guard(r) ==
    /\ req[r].pc = "Received"
    /\ req' = [req EXCEPT ![r] = GuardResult(variant, vectorstore, req[r])]
    /\ UNCHANGED <<split, bank, txtFiles>>
    /\ UNCHANGED <<variant, keySet, indexDir, promptsDir, templates, corpus, phase,
                   crashAt, client, vectorstore, AGENT_READY, health, files, stats,
                   build, load>>

\* a handler that drops the global store when a search raises
agent_retrieve_DropsStore(r) ==
    /\ req[r].pc = "Retrieving"
    /\ LET rec == [req[r] EXCEPT !.searches = @ + 1] IN
       \/ /\ req' = [req EXCEPT ![r] = Fail(rec, 500)]
          /\ vectorstore' = NoStore
       \/ /\ \E ds \in similarity_search(vectorstore, rec.top_k) :
               req' = [req EXCEPT ![r] = [rec EXCEPT !.pc = "Assembling", !.docs = ds]]
          /\ UNCHANGED vectorstore
    /\ UNCHANGED <<split, bank, txtFiles>>
    /\ UNCHANGED <<variant, keySet, indexDir, promptsDir, templates, corpus, phase,
                   crashAt, client, AGENT_READY, health, files, stats, build, load>>

\* app/main.py:286: docs = vectorstore.similarity_search(req.query, k=req.top_k).
\* The call embeds the query over the network and may raise.
agent_retrieve(r) ==
    /\ req[r].pc = "Retrieving"
    /\ LET rec == [req[r] EXCEPT !.searches = @ + 1] IN
       \/ req' = [req EXCEPT ![r] = Fail(rec, 500)]
       \/ \E ds \in similarity_search(vectorstore, rec.top_k) :
            req' = [req EXCEPT ![r] = [rec EXCEPT !.pc = "Assembling", !.docs = ds]]
    /\ UNCHANGED <<split, bank, txtFiles>>
    /\ UNCHANGED <<variant, keySet, indexDir, promptsDir, templates, corpus, phase,
                   crashAt, client, vectorstore, AGENT_READY, health, files, stats,
                   build, load>>

\* context = "\n\n".join([d.page_content for d in docs])
Context(docs) == Join("\n\n", [i \in DOMAIN docs |-> docs[i].page_content])

\* an assembly that goes on to the LLM call whatever get_prompt raised
AssembleResult_IgnoresErrors(v, tmpl, rec) ==
    [rec EXCEPT !.pc = "Generating",
                !.sysp = get_prompt(tmpl, "agent_main_system", EmptyParams).text,
                !.userp = Context(rec.docs) \o Text(rec.query)]

\* app/main.py:292-296: the two get_prompt calls.  main.py:97-98 builds its
\* messages inline, which cannot fail.
AssembleResult(v, tmpl, rec) ==
    IF v = "app"
    THEN LET sp == get_prompt(tmpl, "agent_main_system", EmptyParams)
             up == get_prompt(tmpl, "agent_main_user",
                              [p \in {"context", "query"} |->
                                 IF p = "context" THEN Context(rec.docs)
                                 ELSE Text(rec.query)])
         IN IF sp.error # "" \/ up.error # "" THEN Fail(rec, 500)
            ELSE [rec EXCEPT !.pc = "Generating", !.sysp = sp.text, !.userp = up.text]
    ELSE [rec EXCEPT !.pc = "Generating",
                     !.sysp = <<"You are an expert in SystemVerilog RTL.">>,
                     !.userp = <<"Context:\n">> \o Context(rec.docs)
                               \o <<"\n\nQuestion: ">> \o Text(rec.query)]

agent_assemble(r) ==
    /\ req[r].pc = "Assembling"
    /\ req' = [req EXCEPT ![r] = AssembleResult(variant, templates, req[r])]
    /\ UNCHANGED <<split, bank, txtFiles>>
    /\ UNCHANGED <<variant, keySet, indexDir, promptsDir, templates, corpus, phase,
                   crashAt, client, vectorstore, AGENT_READY, health, files, stats,
                   build, load>>

\* a handler that calls the provider a second time when the first call raised
GenerateResults_Retry(bound, rec) ==
    IF bound
    THEN {AgentResponse([rec EXCEPT !.llm = @ + 1], "answer"),
          AgentResponse([rec EXCEPT !.llm = @ + 2], "answer"),
          Fail([rec EXCEPT !.llm = @ + 2], 500)}
    ELSE {Fail(rec, 500)}

\* app/main.py:299-316: one client.chat.completions.create call; its result
\* is returned, its exception becomes HTTPException(500).  In main.py the
\* name client is not bound: the lookup raises NameError before any call.
GenerateResults(bound, rec) ==
    IF bound
    THEN {AgentResponse([rec EXCEPT !.llm = @ + 1], "answer"),
          Fail([rec EXCEPT !.llm = @ + 1], 500)}
    ELSE {Fail(rec, 500)}

agent_generate(r) ==
    /\ req[r].pc = "Generating"
    /\ \E out \in GenerateResults(client, req[r]) : req' = [req EXCEPT ![r] = out]
    /\ UNCHANGED <<split, bank, txtFiles>>
    /\ UNCHANGED <<variant, keySet, indexDir, promptsDir, templates, corpus, phase,
                   crashAt, client, vectorstore, AGENT_READY, health, files, stats,
                   build, load>>

(***************************************************************************)
(* GET /health, GET /files, GET /stats (app/main.py:115-126, 177-247).     *)
(* status 0 stands for a connection the dead process never accepts, -1 for *)
(* an endpoint not asked yet.                                              *)
(***************************************************************************)
MiB == 1048576

NoHealth == [status |-> -1, state |-> "", agent_ready |-> FALSE, openai_key_set |-> FALSE]
NoFiles == [status |-> -1, error |-> "", total_files |-> 0, files |-> <<>>]
NoStats == [status |-> -1, error |-> "", total_files |-> 0,
            file_types |-> [e \in {} |-> 0], total_size_bytes |-> 0,
            total_size_mb_x100 |-> 0, nostat |-> {}]

HealthResponse(ready, key) ==
    [status |-> 200,
     state |-> IF ready THEN "healthy" ELSE "degraded",
     agent_ready |-> ready,
     openai_key_set |-> key]

health_check ==
    /\ phase # "init"
    /\ health' = IF phase = "crashed" THEN [NoHealth EXCEPT !.status = 0]
                 ELSE HealthResponse(AGENT_READY, keySet)
    /\ UNCHANGED <<split, bank, txtFiles>>
    /\ UNCHANGED <<variant, keySet, indexDir, promptsDir, templates, corpus, phase,
                   crashAt, client, vectorstore, AGENT_READY, req, files, stats,
                   build, load>>

NotFound == "Data directory 'data/raw_full' not found"

\* a list_files without the test of data_path.exists(): the globs of a
\* missing directory match nothing
ListFiles_NoExistsTest(c) ==
    LET all == Glob(c, "sv") \cup Glob(c, "svh") IN
    [status |-> 200, error |-> "", total_files |-> Cardinality(all), files |-> sorted(all)]

ListFiles(c) ==
    IF ~c.exists THEN [NoFiles EXCEPT !.status = 200, !.error = NotFound]
    ELSE LET all == Glob(c, "sv") \cup Glob(c, "svh") IN
         [status |-> 200, error |-> "", total_files |-> Cardinality(all),
          files |-> sorted(all)]

list_files ==
    /\ phase # "init"
    /\ files' = IF phase = "crashed" THEN [NoFiles EXCEPT !.status = 0]
                ELSE ListFiles(corpus)
    /\ UNCHANGED <<split, bank, txtFiles>>
    /\ UNCHANGED <<variant, keySet, indexDir, promptsDir, templates, corpus, phase,
                   crashAt, client, vectorstore, AGENT_READY, req, health, stats,
                   build, load>>

RECURSIVE SumBytes(_)
SumBytes(S) == IF S = {} THEN 0
               ELSE LET p == CHOOSE x \in S : TRUE IN Bytes(p) + SumBytes(S \ {p})

\* a rounding that cuts the digits after the last one kept
RoundDown(n, d) == n \div d

\* round(n / d, 0) as Python rounds an exactly representable quotient: to
\* the nearest integer, a tie to the even one
RoundHalfEven(n, d) ==
    LET q == n \div d
        r == n % d
    IN IF 2 * r < d THEN q
       ELSE IF 2 * r > d THEN q + 1
       ELSE IF q % 2 = 0 THEN q ELSE q + 1

\* round(total_size / (1024 * 1024), 2), in hundredths of a megabyte
RoundMb(total_size) == RoundHalfEven(total_size * 100, MiB)

\* the answer of get_stats; nostat are the matched files whose stat() raises
\* (a dangling link, a file removed after the glob): the bare except of
\* lines 234-237 leaves their size out, their count stays in ext_stats
GetStats(c, nostat) ==
    IF ~c.exists THEN [NoStats EXCEPT !.status = 200, !.error = NotFound]
    ELSE LET ext_stats == [e \in {"sv", "svh"} |-> Cardinality(Glob(c, e))]
             total_size == SumBytes(Glob(c, "sv") \ nostat)
                           + SumBytes(Glob(c, "svh") \ nostat)
         IN [status |-> 200, error |-> "",
             total_files |-> ext_stats["sv"] + ext_stats["svh"],
             file_types |-> ext_stats,
             total_size_bytes |-> total_size,
             total_size_mb_x100 |-> RoundMb(total_size),
             nostat |-> nostat]

get_stats ==
    /\ phase # "init"
    /\ \E nostat \in SUBSET (Glob(corpus, "sv") \cup Glob(corpus, "svh")) :
          stats' = IF phase = "crashed" THEN [NoStats EXCEPT !.status = 0]
                   ELSE GetStats(corpus, nostat)
    /\ UNCHANGED <<split, bank, txtFiles>>
    /\ UNCHANGED <<variant, keySet, indexDir, promptsDir, templates, corpus, phase,
                   crashAt, client, vectorstore, AGENT_READY, req, health, files,
                   build, load>>

(***************************************************************************)
(* Initial states.                                                         *)
(***************************************************************************)
IndexDirs ==
    {NoDir, [state |-> "corrupt", chunks |-> <<>>]}
    \cup {[state |-> "ok", chunks |-> IndexOf(n)] : n \in 1..MaxChunks}

TemplateNames == {"agent_main_system", "agent_main_user"}

SystemTemplates == {NoFile, File(<<"You are an expert.">>), File(<<"Role: ", "other">>)}
UserTemplates == {NoFile, File(<<"Context: ", "context", " Question: ", "query">>)}

TemplateConfigs ==
    {[n \in TemplateNames |-> IF n = "agent_main_system" THEN st ELSE ut] :
        st \in SystemTemplates, ut \in UserTemplates}

NoTemplates == [n \in TemplateNames |-> NoFile]

IdleBuild == [variant |-> "root", pc |-> "idle", files |-> <<>>, documents |-> <<>>,
              chunks |-> <<>>, error |-> "", before |-> NoDir]
IdleLoad == [pc |-> "idle", all_files |-> <<>>, exc |-> "", msg |-> "", documents |-> <<>>]

IdleSplit == [documents |-> <<>>, done |-> {}, all_chunks |-> <<>>, chunks |-> <<>>]

\* the templates PromptBank reads: prompts/<name>.txt
PromptNames == {"analyze_sv", "review"}

NoTxtFiles == [n \in PromptNames |-> NoFile]

\* a PromptBank just constructed: _prompts_cache = {} and no call made yet
IdleBank == [cache |-> NoTxtFiles, calls |-> 0, op |-> "", name |-> "", kwargs |-> <<>>,
             exc |-> "", ret |-> <<>>, warned |-> {}]

SampleCorpus == [exists |-> TRUE, present |-> {"a.sv", "sub/b.svh"}, unreadable |-> {}]

InitProcess ==
    /\ phase = "init"
    /\ crashAt = 0
    /\ client = FALSE
    /\ vectorstore = NoStore
    /\ AGENT_READY = FALSE
    /\ req = [r \in Reqs |-> IdleReq]
    /\ health = NoHealth
    /\ files = NoFiles
    /\ stats = NoStats

\* the query service: any environment, index directory and template files
Init ==
    /\ variant \in {"app", "root"}
    /\ keySet \in BOOLEAN
    /\ indexDir \in IndexDirs
    /\ promptsDir \in BOOLEAN
    /\ templates \in (IF promptsDir THEN TemplateConfigs ELSE {NoTemplates})
    /\ corpus = SampleCorpus
    /\ InitProcess
    /\ build = IdleBuild
    /\ load = IdleLoad
    /\ split = IdleSplit
    /\ bank = IdleBank
    /\ txtFiles = NoTxtFiles

\* one client: a single query request from arrival to its response
Next ==
    \/ Startup
    \/ \E q \in Queries, raw \in TopKInputs : PostAgent(1, q, raw)
    \/ agent_guard(1)
    \/ agent_retrieve(1)
    \/ agent_assemble(1)
    \/ agent_generate(1)

Spec == Init /\ [][Next]_vars

\* concurrent clients: NumReq query requests interleaved statement by
\* statement against a loadable index
ConcInputs ==
    {[query |-> "", raw |-> [kind |-> "int", val |-> 1]],
     [query |-> "fifo", raw |-> [kind |-> "int", val |-> MaxTopK]]}

InitConc ==
    /\ variant \in {"app", "root"}
    /\ keySet = TRUE
    /\ indexDir = [state |-> "ok", chunks |-> IndexOf(MaxChunks)]
    /\ promptsDir = TRUE
    /\ templates \in {t \in TemplateConfigs : t["agent_main_user"].exists}
    /\ corpus = SampleCorpus
    /\ InitProcess
    /\ build = IdleBuild
    /\ load = IdleLoad
    /\ split = IdleSplit
    /\ bank = IdleBank
    /\ txtFiles = NoTxtFiles

NextConc ==
    \/ Startup
    \/ \E r \in Reqs, in \in ConcInputs : PostAgent(r, in.query, in.raw)
    \/ \E r \in Reqs : agent_guard(r)
    \/ \E r \in Reqs : agent_retrieve(r)
    \/ \E r \in Reqs : agent_assemble(r)
    \/ \E r \in Reqs : agent_generate(r)

SpecConc == InitConc /\ [][NextConc]_vars

\* the read-only endpoints: any environment, index directory and corpus
InitOps ==
    /\ variant \in {"app", "root"}
    /\ keySet \in BOOLEAN
    /\ indexDir \in IndexDirs
    /\ promptsDir \in BOOLEAN
    /\ templates = NoTemplates
    /\ corpus \in {c \in Corpora : c.unreadable = {}}
    /\ InitProcess
    /\ build = IdleBuild
    /\ load = IdleLoad
    /\ split = IdleSplit
    /\ bank = IdleBank
    /\ txtFiles = NoTxtFiles

NextOps ==
    \/ Startup
    \/ health_check
    \/ list_files
    \/ get_stats

SpecOps == InitOps /\ [][NextOps]_vars

(***************************************************************************)
(* File contents and documents.                                            *)
(***************************************************************************)
\* the characters of each file
Content(p) == CASE p = "a.sv" -> <<"m", "\n", "e">>
                [] p = "sub/b.svh" -> <<"d">>
                [] p = "c.sv" -> <<>>
                [] OTHER -> <<"n", "o">>

\* Path(p).name
Name(p) == CASE p = "sub/b.svh" -> "b.svh" [] OTHER -> p

FullPath(p) == "data/raw_full/" \o p

Perms(S) == InjectiveSeqs(S, Cardinality(S))

\* glob(**/*.sv) + glob(**/*.svh): each glob lists its matches in the order
\* the directory scan yields them
GlobOrders(c) ==
    {a \o b : a \in Perms(Glob(c, "sv")), b \in Perms(Glob(c, "svh"))}

(***************************************************************************)
(* The chunker: RecursiveCharacterTextSplitter as split_content            *)
(* (verigpt_agent.py:110-135) and build_index (build_index.py:31-32)       *)
(* configure it.  A text is a sequence of characters.  The window of 1000  *)
(* characters and the overlap of 200 are scaled down to chunk_size and     *)
(* chunk_overlap so that documents of a few characters need several        *)
(* windows.                                                                *)
(***************************************************************************)
chunk_size == 3
chunk_overlap == 1
MaxDocLen == 6

Chars == {"a", "b", " ", "\n"}
Whitespace == {" ", "\n"}

\* separators=["\n\n", "\n", " ", ""]
Separators == << <<"\n", "\n">>, <<"\n">>, <<" ">>, <<>> >>

\* re.search(separator, text)
Contains(text, sep) ==
    \E i \in 1..(Len(text) - Len(sep) + 1) : SubSeq(text, i, i + Len(sep) - 1) = sep

\* re.split("(sep)", text) with every separator glued to the front of the
\* piece that follows it (keep_separator=True); cur is the piece in progress
RECURSIVE SplitKeep(_, _, _)
SplitKeep(text, sep, cur) ==
    IF text = <<>> THEN <<cur>>
    ELSE IF Len(text) >= Len(sep) /\ SubSeq(text, 1, Len(sep)) = sep
    THEN <<cur>> \o SplitKeep(SubSeq(text, Len(sep) + 1, Len(text)), sep, sep)
    ELSE SplitKeep(Tail(text), sep, Append(cur, Head(text)))

NonEmpty(t) == t # <<>>

\* _split_text_with_regex(text, separator, keep_separator=True): the
\* non-empty pieces; the separator "" gives list(text)
split_text_with_regex(text, sep) ==
    IF sep = <<>> THEN [i \in 1..Len(text) |-> <<text[i]>>]
    ELSE SelectSeq(SplitKeep(text, sep, <<>>), NonEmpty)

RECURSIVE LStrip(_)
LStrip(t) == IF t # <<>> /\ Head(t) \in Whitespace THEN LStrip(Tail(t)) ELSE t

RECURSIVE RStrip(_)
RStrip(t) ==
    IF t # <<>> /\ t[Len(t)] \in Whitespace THEN RStrip(SubSeq(t, 1, Len(t) - 1)) ELSE t

\* str.strip()
strip(t) == LStrip(RStrip(t))

\* a _join_docs without the test for an empty text
join_docs_KeepsEmpty(docs) == <<strip(Flatten(docs))>>

\* _join_docs(docs, ""): the stripped text as a one-element list, or nothing
\* when it is empty (None)
join_docs(docs) ==
    IF strip(Flatten(docs)) = <<>> THEN <<>> ELSE <<strip(Flatten(docs))>>

\* the running `total` of _merge_splits: with keep_separator the pieces are
\* joined by "", so it is the summed length of current_doc
Total(current_doc) == Len(Flatten(current_doc))

\* a `while` that forgets `total > self._chunk_overlap` and drops pieces
\* only until the next one fits
RECURSIVE PopFront_UntilFits(_, _)
PopFront_UntilFits(current_doc, len) ==
    IF Total(current_doc) + len > chunk_size /\ Total(current_doc) > 0
    THEN PopFront_UntilFits(Tail(current_doc), len)
    ELSE current_doc

\* the `while` of _merge_splits: drop pieces from the front of current_doc
\* while more than the overlap is kept, or the next piece still does not fit
RECURSIVE PopFront(_, _)
PopFront(current_doc, len) ==
    IF Total(current_doc) > chunk_overlap
       \/ (Total(current_doc) + len > chunk_size /\ Total(current_doc) > 0)
    THEN PopFront(Tail(current_doc), len)
    ELSE current_doc

\* the `for d in splits` loop of _merge_splits and its final join
RECURSIVE MergeFrom(_, _)
MergeFrom(splits, current_doc) ==
    IF splits = <<>> THEN join_docs(current_doc)
    ELSE LET d == Head(splits) IN
         IF Total(current_doc) + Len(d) > chunk_size
         THEN IF current_doc # <<>>
              THEN join_docs(current_doc)
                   \o MergeFrom(Tail(splits), Append(PopFront(current_doc, Len(d)), d))
              ELSE MergeFrom(Tail(splits), <<d>>)
         ELSE MergeFrom(Tail(splits), Append(current_doc, d))

merge_splits(splits) == MergeFrom(splits, <<>>)

\* the first separator of the list found in the text ("" is always found)
RECURSIVE PickSeparator(_, _, _)
PickSeparator(text, separators, i) ==
    IF separators[i] = <<>> \/ Contains(text, separators[i]) THEN i
    ELSE PickSeparator(text, separators, i + 1)

\* _split_text(text, separators) and its loop over the pieces: pieces
\* shorter than the window are collected and merged, a longer piece is
\* split again with the remaining separators
RECURSIVE split_text(_, _)
RECURSIVE GatherSplits(_, _, _)
GatherSplits(splits, good_splits, new_separators) ==
    IF splits = <<>> THEN merge_splits(good_splits)
    ELSE IF Len(Head(splits)) < chunk_size
    THEN GatherSplits(Tail(splits), Append(good_splits, Head(splits)), new_separators)
    ELSE merge_splits(good_splits)
         \o (IF new_separators = <<>> THEN <<Head(splits)>>
             ELSE split_text(Head(splits), new_separators))
         \o GatherSplits(Tail(splits), <<>>, new_separators)

split_text(text, separators) ==
    LET i == PickSeparator(text, separators, 1)
        new_separators == IF separators[i] = <<>> THEN <<>>
                          ELSE SubSeq(separators, i + 1, Len(separators))
    IN GatherSplits(split_text_with_regex(text, separators[i]), <<>>, new_separators)

(***************************************************************************)
(* build_index (build_index.py:9-45, app/build_index.py:8-35), followed    *)
(* statement by statement.  The target directory is indexDir.              *)
(***************************************************************************)
\* splitter.split_documents(documents): the chunks of each document in
\* turn, each with a copy of its document's metadata; an empty document
\* gives no chunk
RECURSIVE BuildChunks(_)
BuildChunks(docs) ==
    IF docs = <<>> THEN <<>>
    ELSE LET chunks == split_text(Head(docs).page_content, Separators) IN
         [i \in 1..Len(chunks) |->
             [page_content |-> chunks[i], metadata |-> Head(docs).metadata]]
         \o BuildChunks(Tail(docs))

BuildDocument(p) ==
    [page_content |-> Content(p), metadata |-> [source |-> FullPath(p)]]

BuildFail(b, e) == [b EXCEPT !.pc = "failed", !.error = e]

\* build_index.py:15-18: sys.exit(1) without a key; app/build_index.py has
\* no such test
build_check_key ==
    /\ build.pc = "start"
    /\ build' = IF build.variant = "root" /\ ~keySet
                THEN BuildFail(build, "exit(1)")
                ELSE [build EXCEPT !.pc = "load"]
    /\ UNCHANGED <<split, bank, txtFiles>>
    /\ UNCHANGED <<variant, keySet, indexDir, promptsDir, templates, corpus, phase,
                   crashAt, client, vectorstore, AGENT_READY, req, health, files,
                   stats, load>>

\* the documents read from the files in order, or the first read that raises
BuildLoad(c, order) ==
    IF \E i \in DOMAIN order : order[i] \in c.unreadable
    THEN [raised |-> TRUE, documents |-> <<>>]
    ELSE [raised |-> FALSE, documents |-> [i \in DOMAIN order |-> BuildDocument(order[i])]]

\* build_index.py:20-33: glob, read every file, split
build_load ==
    /\ build.pc = "load"
    /\ \E order \in GlobOrders(corpus) :
         LET l == BuildLoad(corpus, order) IN
         build' = IF l.raised THEN BuildFail([build EXCEPT !.files = order], "read")
                  ELSE [build EXCEPT !.pc = "embed", !.files = order,
                                     !.documents = l.documents,
                                     !.chunks = BuildChunks(l.documents)]
    /\ UNCHANGED <<split, bank, txtFiles>>
    /\ UNCHANGED <<variant, keySet, indexDir, promptsDir, templates, corpus, phase,
                   crashAt, client, vectorstore, AGENT_READY, req, health, files,
                   stats, load>>

\* FAISS.from_documents(chunks, embeddings): raises without a key (the
\* provider refuses) and on no chunks; otherwise the provider decides
FromDocuments(key, chunks) ==
    IF ~key \/ chunks = <<>> THEN {"raise"} ELSE {"ok", "raise"}

\* build_index.py:36-41: the embeddings object and the in-memory index
build_embed ==
    /\ build.pc = "embed"
    /\ \E ctor \in CtorOutcomes(keySet), out \in FromDocuments(keySet, build.chunks) :
         build' = IF ctor = "raise" \/ out = "raise" THEN BuildFail(build, "embed")
                  ELSE [build EXCEPT !.pc = "mkdir"]
    /\ UNCHANGED <<split, bank, txtFiles>>
    /\ UNCHANGED <<variant, keySet, indexDir, promptsDir, templates, corpus, phase,
                   crashAt, client, vectorstore, AGENT_READY, req, health, files,
                   stats, load>>

\* Path(out_dir).mkdir(parents=True, exist_ok=True)
Mkdir(dir) == IF dir.state = "absent" THEN [dir EXCEPT !.state = "empty"] ELSE dir

\* build_index.py:43
build_mkdir ==
    /\ build.pc = "mkdir"
    /\ \/ /\ build' = [build EXCEPT !.pc = "save"]
          /\ indexDir' = Mkdir(indexDir)
       \/ /\ build' = BuildFail(build, "mkdir")
          /\ UNCHANGED indexDir
    /\ UNCHANGED <<split, bank, txtFiles>>
    /\ UNCHANGED <<variant, keySet, promptsDir, templates, corpus, phase,
                   crashAt, client, vectorstore, AGENT_READY, req, health, files,
                   stats, load>>

\* vectorstore.save_local(out_dir) writes index.faiss, then index.pkl: the
\* directory after a complete save, and after a save that raised between
\* the two files
Saved(dir, chunks) == [state |-> "ok", chunks |-> chunks]
HalfSaved(dir, chunks) == [state |-> "partial", chunks |-> <<>>]

\* build_index.py:44-45
build_save ==
    /\ build.pc = "save"
    /\ \/ /\ build' = [build EXCEPT !.pc = "done"]
          /\ indexDir' = Saved(indexDir, build.chunks)
       \/ /\ build' = BuildFail(build, "save")
          /\ indexDir' \in {indexDir, HalfSaved(indexDir, build.chunks)}
    /\ UNCHANGED <<split, bank, txtFiles>>
    /\ UNCHANGED <<variant, keySet, promptsDir, templates, corpus, phase,
                   crashAt, client, vectorstore, AGENT_READY, req, health, files,
                   stats, load>>

InitBuild ==
    /\ variant = "app"
    /\ keySet \in BOOLEAN
    /\ indexDir \in {NoDir, [state |-> "ok", chunks |-> IndexOf(1)]}
    /\ promptsDir = TRUE
    /\ templates = NoTemplates
    /\ corpus \in Corpora
    /\ InitProcess
    /\ \E v \in {"root", "app"} :
         build = [IdleBuild EXCEPT !.pc = "start", !.variant = v, !.before = indexDir]
    /\ load = IdleLoad
    /\ split = IdleSplit
    /\ bank = IdleBank
    /\ txtFiles = NoTxtFiles

NextBuild ==
    \/ build_check_key
    \/ build_load
    \/ build_embed
    \/ build_mkdir
    \/ build_save

SpecBuild == InitBuild /\ [][NextBuild]_vars

(***************************************************************************)
(* VeriGPTAgent.load_sv_files_from_data (verigpt_agent.py:62-108).         *)
(***************************************************************************)
\* Document(page_content=content, metadata={...}) of verigpt_agent.py:92-101
Document(p) ==
    [page_content |-> Content(p),
     metadata |-> [filename |-> Name(p), path |-> p, full_path |-> FullPath(p),
                   extension |-> "." \o Ext(p), size |-> Len(Content(p))]]

\* the loop of lines 82-106: a file whose read raises is reported and skipped
RECURSIVE ReadAll(_, _)
ReadAll(c, order) ==
    IF order = <<>> THEN <<>>
    ELSE (IF Head(order) \in c.unreadable THEN <<>> ELSE <<Document(Head(order))>>)
         \o ReadAll(c, Tail(order))

\* the call's result for the file order the globs gave: the exception
\* raised (its class and message) or the documents returned
LoadResult(c, order) ==
    IF ~c.exists
    THEN [pc |-> "done", all_files |-> <<>>, exc |-> "FileNotFoundError",
          msg |-> "Data directory 'data/raw_full' not found", documents |-> <<>>]
    ELSE IF order = <<>>
    THEN [pc |-> "done", all_files |-> order, exc |-> "FileNotFoundError",
          msg |-> "No files with extensions ['sv', 'svh'] found in data/raw_full",
          documents |-> <<>>]
    ELSE [pc |-> "done", all_files |-> order, exc |-> "", msg |-> "",
          documents |-> ReadAll(c, order)]

load_sv_files_from_data ==
    /\ load.pc = "idle"
    /\ \E order \in GlobOrders(corpus) : load' = LoadResult(corpus, order)
    /\ UNCHANGED <<split, bank, txtFiles>>
    /\ UNCHANGED <<variant, keySet, indexDir, promptsDir, templates, corpus, phase,
                   crashAt, client, vectorstore, AGENT_READY, req, health, files,
                   stats, build>>

InitLoader ==
    /\ variant = "app"
    /\ keySet = TRUE
    /\ indexDir = NoDir
    /\ promptsDir = TRUE
    /\ templates = NoTemplates
    /\ corpus \in Corpora
    /\ InitProcess
    /\ build = IdleBuild
    /\ load = IdleLoad
    /\ split = IdleSplit
    /\ bank = IdleBank
    /\ txtFiles = NoTxtFiles

NextLoader == load_sv_files_from_data

SpecLoader == InitLoader /\ [][NextLoader]_vars

(***************************************************************************)
(* Properties of the query endpoint.                                       *)
(***************************************************************************)
Served(q) == q.pc # "idle" /\ ~(q.pc = "Failed" /\ q.status = 0)

InvalidInput(q) ==
    q.query = "" \/ q.kind = "bad" \/ (q.kind = "int" /\ q.top_k <= 0)

\* C1: a request with an empty query or a top_k that is not a positive
\* integer is rejected as invalid (400; the 422 the framework gives a body
\* that does not parse is counted as that rejection too) and causes no
\* similarity search and no LLM call.
C1_InvalidRequestIs400 ==
    \A r \in Reqs :
        (Served(req[r]) /\ InvalidInput(req[r])) =>
            /\ req[r].searches = 0
            /\ req[r].llm = 0
            /\ req[r].pc \in Terminal => req[r].status \in {400, 422}

\* C2: with no vector index loaded (the credential being configured, so
\* that nothing but the index is missing), every finished query request
\* carries 503 and made no retrieval and no LLM call, however the index
\* came to be missing.
C2_NoIndexIs503 ==
    \A r \in Reqs :
        (req[r].pc \in Terminal /\ keySet /\ ~vectorstore.loaded) =>
            /\ req[r].status = 503
            /\ req[r].searches = 0
            /\ req[r].llm = 0

AssemblyOk(v, tmpl, q) ==
    v = "app" =>
        /\ get_prompt(tmpl, "agent_main_system", EmptyParams).error = ""
        /\ \A p \in FieldsOf(tmpl["agent_main_user"].text) : p \in {"context", "query"}
        /\ tmpl["agent_main_user"].exists

Order ==
    {<<"idle", "Received">>, <<"Received", "Retrieving">>,
     <<"Retrieving", "Assembling">>, <<"Assembling", "Generating">>,
     <<"Generating", "Answered">>}
    \cup {<<p, "Failed">> : p \in {"idle", "Received", "Retrieving", "Assembling", "Generating"}}

C3_State ==
    \A r \in Reqs :
        /\ req[r].llm > 0 =>
              /\ req[r].searches = 1
              /\ AssemblyOk(variant, templates, req[r])
              /\ req[r].pc = "Answered" \/ (req[r].pc = "Failed" /\ req[r].at = "Generating")
        /\ (req[r].pc = "Failed" /\ req[r].at # "Generating") => req[r].llm = 0
        /\ req[r].pc \in {"Generating", "Answered"} =>
              (req[r].searches = 1 /\ AssemblyOk(variant, templates, req[r]))

C3_Step ==
    \A r \in Reqs :
        /\ req'[r].pc # req[r].pc => <<req[r].pc, req'[r].pc>> \in Order
        /\ req'[r].llm # req[r].llm => req[r].pc = "Generating"
        /\ req'[r].searches # req[r].searches => req[r].pc = "Retrieving"
        /\ req[r].pc \in Terminal => req'[r] = req[r]

\* C3: a request moves Received, Retrieving, Assembling, Generating,
\* Answered in that order or to Failed; the LLM is called only from
\* Generating, after one retrieval and a successful assembly; a request
\* that failed before Generating never called the LLM; Answered and Failed
\* are final.
C3_OrderedPipeline == []C3_State /\ [][C3_Step]_vars

C3_Witness ==
    \E r \in Reqs :
        /\ req[r].pc = "Failed" /\ req[r].at = "Assembling"
        /\ req[r].status = 500 /\ req[r].searches = 1 /\ req[r].llm = 0

\* C4: a request whose LLM call raised ends Failed with 500, carries no
\* answer, and the provider was called exactly once for it; no request
\* calls the provider more than once.
C4_ProviderErrorIs500NoRetry ==
    \A r \in Reqs :
        /\ req[r].llm <= 1
        /\ (req[r].pc = "Failed" /\ req[r].at = "Generating") =>
              /\ req[r].status = 500
              /\ req[r].keys = {}
              /\ req[r].answer = ""
              /\ variant = "app" => req[r].llm = 1

C4_Witness ==
    \E r \in Reqs :
        /\ req[r].pc = "Failed" /\ req[r].at = "Generating"
        /\ req[r].llm = 1 /\ req[r].status = 500

\* C5: an Answered response holds the answer, the query as posted, the
\* top_k used and the metadata of the retrieved chunks, one per chunk in
\* retrieval order, min(top_k, N) of them for an index of N chunks.
C5_AnsweredResponse ==
    \A r \in Reqs :
        req[r].pc = "Answered" =>
            /\ req[r].status = 200
            /\ req[r].keys = {"answer", "sources", "query", "top_k"}
            /\ req[r].answer = "answer"
            /\ req[r].rquery = req[r].query
            /\ req[r].rtop_k = req[r].top_k
            /\ req[r].docs \in similarity_search(vectorstore, req[r].top_k)
            /\ Len(req[r].sources) = Len(req[r].docs)
            /\ \A i \in DOMAIN req[r].docs : req[r].sources[i] = req[r].docs[i].metadata
            /\ Len(req[r].sources) = Min(req[r].top_k, Len(vectorstore.chunks))

C5_Witness ==
    \E r \in Reqs :
        /\ req[r].pc = "Answered"
        /\ req[r].top_k = MaxTopK
        /\ Len(vectorstore.chunks) = 2
        /\ Len(req[r].sources) = 2
        /\ req[r].sources[1] = Chunk(2).metadata

(***************************************************************************)
(* Properties of startup and of the read-only endpoints.                   *)
(***************************************************************************)
\* C6: a health answer given while no credential is configured reports
\* agent_ready false, status degraded and openai_key_set false.
C6_NoKeyNotReady ==
    (health.status = 200 /\ ~keySet) =>
        /\ ~health.agent_ready
        /\ health.state = "degraded"
        /\ ~health.openai_key_set

C6_Witness ==
    /\ health.status = 200
    /\ ~keySet
    /\ promptsDir
    /\ phase = "serving"

\* C7: without a credential (the index being loadable) the service still
\* comes up, and the listing and stats endpoints answer normally.
C7_NoKeyStillServes ==
    (~keySet /\ indexDir.state = "ok" /\ phase # "init") =>
        /\ phase = "serving"
        /\ files.status \in {-1, 200}
        /\ stats.status \in {-1, 200}

(***************************************************************************)
(* Concurrent query requests.                                              *)
(***************************************************************************)
\* The responses agent_endpoint can give a request that runs alone, from
\* the guard to the return, against a given store and template files.
RunAlone(v, vs, tmpl, bound, rec) ==
    LET g == GuardResult(v, vs, rec)
        s == [g EXCEPT !.searches = @ + 1]
        after(ds) == AssembleResult(v, tmpl, [s EXCEPT !.pc = "Assembling", !.docs = ds])
    IN IF g.pc = "Failed" THEN {g}
       ELSE {Fail(s, 500)}
            \cup UNION {IF after(ds).pc = "Failed" THEN {after(ds)}
                        ELSE GenerateResults(bound, after(ds)) :
                        ds \in similarity_search(vs, rec.top_k)}

Posted(q) ==
    [IdleReq EXCEPT !.pc = "Received", !.query = q.query, !.kind = q.kind,
                    !.top_k = q.top_k]

C8_State ==
    \A r \in Reqs :
        (req[r].pc \in Terminal /\ Served(req[r]) /\ req[r].at # "idle") =>
            req[r] \in RunAlone(variant, StoreAfterStartup(indexDir), templates,
                                variant = "app", Posted(req[r]))

C8_Step ==
    phase = "serving" =>
        /\ UNCHANGED <<vectorstore, AGENT_READY, client, templates, promptsDir,
                       indexDir, phase>>
        /\ \A r, o \in Reqs : (req'[r] # req[r] /\ o # r) => req'[o] = req[o]

\* C8: no statement of a query request writes the loaded index, the
\* readiness flag, the client or the template files, nor another request's
\* data; under every interleaving each finished request has a response it
\* could have had running alone against the same index and templates.
C8_RequestsIndependent == []C8_State /\ [][C8_Step]_vars

\* a later request finished while an earlier one was still in flight
C8_Witness ==
    /\ req[1].pc = "Assembling"
    /\ req[2].pc = "Answered"
    /\ req[1].query # req[2].query

(***************************************************************************)
(* Properties of the index build and of the corpus loader.                 *)
(***************************************************************************)
\* C9: a build that failed, at whatever statement, left the target
\* directory as it was before the build: not created, not modified, no
\* partial or empty index in it.
C9_FailedBuildWritesNothing ==
    build.pc = "failed" => indexDir = build.before

\* C10: loading a missing root directory fails, loading an existing
\* directory without a matching file fails with an error of another class
\* than the missing directory's, and neither returns a document.
C10_DistinctLoadErrors ==
    load.pc = "done" =>
        /\ ~corpus.exists => (load.exc # "" /\ load.documents = <<>>)
        /\ (corpus.exists /\ Glob(corpus, "sv") \cup Glob(corpus, "svh") = {}) =>
              /\ load.exc # ""
              /\ load.exc # LoadResult(NoCorpus, <<>>).exc
              /\ load.documents = <<>>

\* the matching files whose read succeeds
Readable(c) == (Glob(c, "sv") \cup Glob(c, "svh")) \ c.unreadable

\* C11: a file whose read fails never aborts a corpus load: the agent's
\* loader and the read loop of build_index both end with exactly one
\* document per readable matching file.
C11_ReadFailureSkipped ==
    /\ (load.pc = "done" /\ load.all_files # <<>>) =>
          /\ load.exc = ""
          /\ {d.metadata.path : d \in Range(load.documents)} = Readable(corpus)
          /\ Len(load.documents) = Cardinality(Readable(corpus))
    /\ build.files # <<>> =>
          /\ build.error # "read"
          /\ {d.metadata.source : d \in Range(build.documents)}
                = {FullPath(p) : p \in Readable(corpus)}
          /\ Len(build.documents) = Cardinality(Readable(corpus))

\* C12: the documents load_sv_files_from_data returns are in sorted path
\* order, whatever order the directory scan and the two globs list the
\* files in.
C12_SortedLoad ==
    (load.pc = "done" /\ load.exc = "") =>
        \A i, j \in DOMAIN load.documents :
            i < j => PathRank(load.documents[i].metadata.path)
                        < PathRank(load.documents[j].metadata.path)

(***************************************************************************)
(* VeriGPTAgent.split_content (verigpt_agent.py:110-135) and the split of  *)
(* build_index (build_index.py:31-32), run on the same files.              *)
(***************************************************************************)
\* the document the loader makes of a file p whose content is t
SplitInput(p, t) ==
    [page_content |-> t, metadata |-> [Document(p).metadata EXCEPT !.size = Len(t)]]

\* the documents given to the chunker for a text t: no file, one file of
\* text t, or that file followed by a second one that is empty or has the
\* same text
SplitInputs(t) ==
    {<<>>, <<SplitInput("a.sv", t)>>,
     <<SplitInput("a.sv", t), SplitInput("sub/b.svh", <<>>)>>,
     <<SplitInput("a.sv", t), SplitInput("sub/b.svh", t)>>}

\* a split_content that numbers the chunks of a document from 1
RECURSIVE SplitContent_OneBased(_)
SplitContent_OneBased(documents) ==
    IF documents = <<>> THEN <<>>
    ELSE LET doc == Head(documents)
             chunks == split_text(doc.page_content, Separators)
         IN [i \in 1..Len(chunks) |->
                [page_content |-> chunks[i],
                 metadata |-> [chunk_index |-> i, total_chunks |-> Len(chunks)]
                              @@ doc.metadata]]
            \o SplitContent_OneBased(Tail(documents))

\* the loop of verigpt_agent.py:120-132: {**doc.metadata, "chunk_index": i,
\* "total_chunks": len(chunks)} for the i-th chunk of each document
RECURSIVE SplitContent(_)
SplitContent(documents) ==
    IF documents = <<>> THEN <<>>
    ELSE LET doc == Head(documents)
             chunks == split_text(doc.page_content, Separators)
         IN [i \in 1..Len(chunks) |->
                [page_content |-> chunks[i],
                 metadata |-> [chunk_index |-> i - 1, total_chunks |-> Len(chunks)]
                              @@ doc.metadata]]
            \o SplitContent(Tail(documents))

split_content ==
    /\ "split_content" \notin split.done
    /\ split' = [split EXCEPT !.done = @ \cup {"split_content"},
                              !.all_chunks = SplitContent(split.documents)]
    /\ UNCHANGED <<bank, txtFiles>>
    /\ UNCHANGED <<variant, keySet, indexDir, promptsDir, templates, corpus, phase,
                   crashAt, client, vectorstore, AGENT_READY, req, health, files,
                   stats, build, load>>

\* Document(page_content=content, metadata={"source": f}) of build_index.py:27
\* for the same file
AsBuildDocument(d) ==
    [page_content |-> d.page_content, metadata |-> [source |-> d.metadata.full_path]]

\* build_index.py:31-32
split_documents ==
    /\ "split_documents" \notin split.done
    /\ split' = [split EXCEPT
                    !.done = @ \cup {"split_documents"},
                    !.chunks = BuildChunks([i \in DOMAIN split.documents |->
                                               AsBuildDocument(split.documents[i])])]
    /\ UNCHANGED <<bank, txtFiles>>
    /\ UNCHANGED <<variant, keySet, indexDir, promptsDir, templates, corpus, phase,
                   crashAt, client, vectorstore, AGENT_READY, req, health, files,
                   stats, build, load>>

InitChunk ==
    /\ variant = "app"
    /\ keySet = TRUE
    /\ indexDir = NoDir
    /\ promptsDir = TRUE
    /\ templates = NoTemplates
    /\ corpus = SampleCorpus
    /\ InitProcess
    /\ build = IdleBuild
    /\ load = IdleLoad
    /\ \E n \in 0..MaxDocLen : \E t \in [1..n -> Chars] : \E ds \in SplitInputs(t) :
          split = [IdleSplit EXCEPT !.documents = ds]
    /\ bank = IdleBank
    /\ txtFiles = NoTxtFiles

NextChunk ==
    \/ split_content
    \/ split_documents

SpecChunk == InitChunk /\ [][NextChunk]_vars

\* the position in the input of the document a chunk names as its source
DocOf(c) == CHOOSE d \in DOMAIN split.documents :
                split.documents[d].metadata.path = c.metadata.path

\* C13: every chunk of split_content carries its document's metadata
\* unchanged plus chunk_index and total_chunks; total_chunks is the number
\* of chunks of that document, the chunk_index values of a document's chunks
\* run 0, 1, ... in output order, and the chunks of different documents come
\* in document order, never interleaved.
C13_ChunkMetadata ==
    "split_content" \in split.done =>
        LET cs == split.all_chunks
            same(k) == {j \in DOMAIN cs : cs[j].metadata.path = cs[k].metadata.path}
        IN /\ \A k \in DOMAIN cs :
                /\ \E d \in DOMAIN split.documents :
                      split.documents[d].metadata.path = cs[k].metadata.path
                /\ DOMAIN cs[k].metadata
                      = DOMAIN split.documents[DocOf(cs[k])].metadata
                        \cup {"chunk_index", "total_chunks"}
                /\ \A f \in DOMAIN split.documents[DocOf(cs[k])].metadata :
                      cs[k].metadata[f] = split.documents[DocOf(cs[k])].metadata[f]
                /\ cs[k].metadata.total_chunks = Cardinality(same(k))
                /\ cs[k].metadata.chunk_index = Cardinality({j \in same(k) : j < k})
           /\ \A j, k \in DOMAIN cs : j < k => DocOf(cs[j]) <= DocOf(cs[k])

\* two documents of more than one chunk each have been split
C13_Witness ==
    /\ "split_content" \in split.done
    /\ Len(split.documents) = 2
    /\ \A d \in 1..2 :
          Cardinality({k \in DOMAIN split.all_chunks : DocOf(split.all_chunks[k]) = d}) >= 2

\* C14: every chunk the chunker makes of a document, in split_content and
\* in build_index, is at most chunk_size characters long and is not empty.
C14_ChunkLength ==
    /\ \A k \in DOMAIN split.all_chunks :
          /\ Len(split.all_chunks[k].page_content) <= chunk_size
          /\ split.all_chunks[k].page_content # <<>>
    /\ \A k \in DOMAIN split.chunks :
          /\ Len(split.chunks[k].page_content) <= chunk_size
          /\ split.chunks[k].page_content # <<>>

\* a document longer than the window, with blank space at a window's edge,
\* was split by both callers and one chunk fills the window
C14_Witness ==
    /\ split.done = {"split_content", "split_documents"}
    /\ Len(split.documents) = 1
    /\ Len(split.documents[1].page_content) > chunk_size
    /\ \E i \in DOMAIN split.documents[1].page_content :
          split.documents[1].page_content[i] \in Whitespace
    /\ Len(split.all_chunks) >= 2
    /\ Len(split.chunks) = Len(split.all_chunks)
    /\ \E k \in DOMAIN split.all_chunks : Len(split.all_chunks[k].page_content) = chunk_size

IsPrefix(p, t) == Len(p) <= Len(t) /\ SubSeq(t, 1, Len(p)) = p
IsSuffix(p, t) == Len(p) <= Len(t) /\ SubSeq(t, Len(t) - Len(p) + 1, Len(t)) = p
Drop(t, n) == SubSeq(t, n + 1, Len(t))

\* the overlaps that may be removed from the front of a chunk: none from
\* a document's first chunk, then the amounts in `amounts` that the chunk
\* has, the removed text being the end of the chunk before it
Overlaps(prev, chunk, amounts) ==
    IF prev = <<>> THEN {0}
    ELSE {o \in amounts : o <= Len(chunk) /\ IsSuffix(SubSeq(chunk, 1, o), prev)}

\* text d is the chunks in order, each without its overlap with the chunk
\* before it, with nothing but blank space between and around them
RECURSIVE Rebuilds(_, _, _, _)
Rebuilds(d, prev, chunks, amounts) ==
    IF chunks = <<>> THEN LStrip(d) = <<>>
    ELSE \E o \in Overlaps(prev, Head(chunks), amounts) :
         \E w \in 0..Len(d) :
            /\ \A i \in 1..w : d[i] \in Whitespace
            /\ IsPrefix(Drop(Head(chunks), o), Drop(d, w))
            /\ Rebuilds(Drop(d, w + Len(Head(chunks)) - o), Head(chunks),
                        Tail(chunks), amounts)

\* the texts of the chunks split_content made of document number d
ChunksOf(d) ==
    LET ks == SelectSeq([k \in DOMAIN split.all_chunks |-> k],
                        LAMBDA k : DocOf(split.all_chunks[k]) = d)
    IN [i \in DOMAIN ks |-> split.all_chunks[ks[i]].page_content]

MaxTmplLen == 3
MaxCalls == 4

Keys == {"code_block", "query"}

\* placeholder = f"{{{{{key}}}}}"
Placeholder(key) == "{{" \o key \o "}}"

TxtPieces == {"Analyze: "} \cup {Placeholder(k) : k \in Keys}

\* str(value) of the values a caller may pass: a plain text, the empty
\* string, and a text that holds the placeholder of another parameter
Values == {<<"module m;">>, <<>>, <<Placeholder("query")>>}

AllKwargs ==
    {<<>>}
    \cup {<<[key |-> k, value |-> v]>> : k \in Keys, v \in Values}
    \cup {<<[key |-> k1, value |-> v1], [key |-> k2, value |-> v2]>> :
             <<k1, k2>> \in {kk \in Keys \X Keys : kk[1] # kk[2]},
             <<v1, v2>> \in Values \X Values}

\* formatted_prompt.replace(placeholder, str(value))
Replace(text, placeholder, value) ==
    Flatten([i \in DOMAIN text |->
                IF text[i] = placeholder THEN value ELSE <<text[i]>>])

\* the loop of prompt_bank.py:46-51 from a given argument on: the text so
\* far and the placeholders warned about
RECURSIVE FormatFrom(_, _, _)
FormatFrom(formatted_prompt, kwargs, warned) ==
    IF kwargs = <<>> THEN [text |-> formatted_prompt, warned |-> warned]
    ELSE IF Placeholder(Head(kwargs).key) \in Range(formatted_prompt)
    THEN FormatFrom(Replace(formatted_prompt, Placeholder(Head(kwargs).key),
                            Head(kwargs).value),
                    Tail(kwargs), warned)
    ELSE FormatFrom(formatted_prompt, Tail(kwargs),
                    warned \cup {Placeholder(Head(kwargs).key)})

\* a load_prompt that reads the file before it looks in the cache
LoadPrompt_ReadsFirst(cache, dir, name, readOk) ==
    IF ~dir[name].exists
    THEN [exc |-> "FileNotFoundError", ret |-> <<>>, cache |-> cache]
    ELSE IF ~readOk
    THEN [exc |-> "Exception", ret |-> <<>>, cache |-> cache]
    ELSE [exc |-> "", ret |-> dir[name].text,
          cache |-> [cache EXCEPT ![name] = File(dir[name].text)]]

\* load_prompt(name) (prompt_bank.py:21-37): the cached text, or the file's
\* text, which is then cached; a missing file and a failed read raise
LoadPrompt(cache, dir, name, readOk) ==
    IF cache[name].exists
    THEN [exc |-> "", ret |-> cache[name].text, cache |-> cache]
    ELSE IF ~dir[name].exists
    THEN [exc |-> "FileNotFoundError", ret |-> <<>>, cache |-> cache]
    ELSE IF ~readOk
    THEN [exc |-> "Exception", ret |-> <<>>, cache |-> cache]
    ELSE [exc |-> "", ret |-> dir[name].text,
          cache |-> [cache EXCEPT ![name] = File(dir[name].text)]]

load_prompt(name) ==
    /\ bank.calls < MaxCalls
    /\ \E readOk \in BOOLEAN :
         LET r == LoadPrompt(bank.cache, txtFiles, name, readOk) IN
         bank' = [cache |-> r.cache, calls |-> bank.calls + 1, op |-> "load_prompt",
                  name |-> name, kwargs |-> <<>>, exc |-> r.exc, ret |-> r.ret,
                  warned |-> {}]
    /\ UNCHANGED <<split, txtFiles>>
    /\ UNCHANGED <<variant, keySet, indexDir, promptsDir, templates, corpus, phase,
                   crashAt, client, vectorstore, AGENT_READY, req, health, files,
                   stats, build, load>>

\* format_prompt(name, **kwargs) (prompt_bank.py:39-55) after its
\* load_prompt: the error of the load, or the formatted text
FormatPrompt(loaded, kwargs) ==
    IF loaded.exc # "" THEN [exc |-> loaded.exc, ret |-> <<>>, warned |-> {}]
    ELSE [exc |-> "", ret |-> FormatFrom(loaded.ret, kwargs, {}).text,
          warned |-> FormatFrom(loaded.ret, kwargs, {}).warned]

format_prompt(name, kwargs) ==
    /\ bank.calls < MaxCalls
    /\ \E readOk \in BOOLEAN :
         LET l == LoadPrompt(bank.cache, txtFiles, name, readOk)
             f == FormatPrompt(l, kwargs)
         IN bank' = [cache |-> l.cache, calls |-> bank.calls + 1, op |-> "format_prompt",
                     name |-> name, kwargs |-> kwargs, exc |-> f.exc, ret |-> f.ret,
                     warned |-> f.warned]
    /\ UNCHANGED <<split, txtFiles>>
    /\ UNCHANGED <<variant, keySet, indexDir, promptsDir, templates, corpus, phase,
                   crashAt, client, vectorstore, AGENT_READY, req, health, files,
                   stats, build, load>>

\* clear_cache() (prompt_bank.py:64-66)
clear_cache ==
    /\ bank.calls < MaxCalls
    /\ bank' = [IdleBank EXCEPT !.calls = bank.calls + 1, !.op = "clear_cache"]
    /\ UNCHANGED <<split, txtFiles>>
    /\ UNCHANGED <<variant, keySet, indexDir, promptsDir, templates, corpus, phase,
                   crashAt, client, vectorstore, AGENT_READY, req, health, files,
                   stats, build, load>>

\* the template file prompts/<name>.txt is written or replaced on disk
WriteTxt(name, text) ==
    /\ txtFiles[name] # File(text)
    /\ txtFiles' = [txtFiles EXCEPT ![name] = File(text)]
    /\ UNCHANGED <<split, bank>>
    /\ UNCHANGED <<variant, keySet, indexDir, promptsDir, templates, corpus, phase,
                   crashAt, client, vectorstore, AGENT_READY, req, health, files,
                   stats, build, load>>

\* the template file is deleted
DeleteTxt(name) ==
    /\ txtFiles[name].exists
    /\ txtFiles' = [txtFiles EXCEPT ![name] = NoFile]
    /\ UNCHANGED <<split, bank>>
    /\ UNCHANGED <<variant, keySet, indexDir, promptsDir, templates, corpus, phase,
                   crashAt, client, vectorstore, AGENT_READY, req, health, files,
                   stats, build, load>>

\* the params dict of get_prompt, from the arguments in call order
AsDict(kwargs) ==
    [k \in {kwargs[i].key : i \in DOMAIN kwargs} |->
        kwargs[CHOOSE i \in DOMAIN kwargs : kwargs[i].key = k].value]

\* the params a caller may give get_prompt: a value for any of the names
ParamLists ==
    {SelectSeq(<<[key |-> "context", value |-> <<"chunk text">>],
                 [key |-> "query", value |-> <<"what is m?">>],
                 [key |-> "other", value |-> <<"x">>]>>,
               LAMBDA a : a.key \in S) : S \in SUBSET Placeholders}

\* a call of get_prompt(prompt_fn, params) (app/prompt.py:4-29): it prints
\* nothing, so no warning is recorded
call_get_prompt(prompt_fn, kwargs) ==
    /\ bank.calls < MaxCalls
    /\ bank' = [bank EXCEPT
                   !.calls = @ + 1, !.op = "get_prompt", !.name = prompt_fn,
                   !.kwargs = kwargs,
                   !.exc = get_prompt(templates, prompt_fn, AsDict(kwargs)).error,
                   !.ret = get_prompt(templates, prompt_fn, AsDict(kwargs)).text,
                   !.warned = {}]
    /\ UNCHANGED <<split, txtFiles>>
    /\ UNCHANGED <<variant, keySet, indexDir, promptsDir, templates, corpus, phase,
                   crashAt, client, vectorstore, AGENT_READY, req, health, files,
                   stats, build, load>>

\* one call of an assembler on any template text and any arguments
InitAssemble ==
    /\ variant = "app"
    /\ keySet = TRUE
    /\ indexDir = NoDir
    /\ promptsDir = TRUE
    /\ templates \in TemplateConfigs
    /\ corpus = SampleCorpus
    /\ InitProcess
    /\ build = IdleBuild
    /\ load = IdleLoad
    /\ split = IdleSplit
    /\ bank = IdleBank
    /\ \E f \in {NoFile} \cup {File(t) : t \in UNION {[1..n -> TxtPieces] : n \in 0..MaxTmplLen}} :
          txtFiles = [NoTxtFiles EXCEPT !["analyze_sv"] = f]

NextAssemble ==
    /\ bank.calls = 0
    /\ \/ \E kwargs \in AllKwargs : format_prompt("analyze_sv", kwargs)
       \/ \E prompt_fn \in TemplateNames, kwargs \in ParamLists :
             call_get_prompt(prompt_fn, kwargs)

SpecAssemble == InitAssemble /\ [][NextAssemble]_vars

\* the two versions of a template file that the cache may see
BankTexts == {<<"Analyze: ", Placeholder("code_block")>>, <<Placeholder("code_block")>>}

BankKwargs == {<<[key |-> "code_block", value |-> <<"module m;">>]>>}

\* a PromptBank in use while the template files change under it
InitBank ==
    /\ variant = "app"
    /\ keySet = TRUE
    /\ indexDir = NoDir
    /\ promptsDir = TRUE
    /\ templates = NoTemplates
    /\ corpus = SampleCorpus
    /\ InitProcess
    /\ build = IdleBuild
    /\ load = IdleLoad
    /\ split = IdleSplit
    /\ bank = IdleBank
    /\ txtFiles \in [PromptNames -> {NoFile} \cup {File(t) : t \in BankTexts}]

NextBank ==
    \/ \E name \in PromptNames : load_prompt(name)
    \/ \E name \in PromptNames, kwargs \in BankKwargs : format_prompt(name, kwargs)
    \/ clear_cache
    \/ \E name \in PromptNames, text \in BankTexts : WriteTxt(name, text)
    \/ \E name \in PromptNames : DeleteTxt(name)

SpecBank == InitBank /\ [][NextBank]_vars

(***************************************************************************)
(* Properties of prompt assembly.                                          *)
(***************************************************************************)
\* the parameter names the last call supplied
Supplied == {bank.kwargs[i].key : i \in DOMAIN bank.kwargs}

\* the parameters of the template prompts/<name>.txt that have a
\* placeholder in it
InTxt(name) == {k \in Keys : Placeholder(k) \in Range(txtFiles[name].text)}

\* C16: an assembly whose template holds a placeholder without a supplied
\* value fails (with the error that names the placeholder) and returns no
\* prompt in which that placeholder is left; this for format_prompt and for
\* get_prompt.
C16_MissingParameterFails ==
    /\ (bank.op = "format_prompt" /\ txtFiles[bank.name].exists) =>
          \A k \in InTxt(bank.name) \ Supplied :
              /\ bank.exc # ""
              /\ Placeholder(k) \notin Range(bank.ret)
    /\ (bank.op = "get_prompt" /\ templates[bank.name].exists) =>
          \A k \in FieldsOf(templates[bank.name].text) \ Supplied :
              /\ bank.exc = "KeyError"
              /\ bank.ret = <<>>

\* the arguments of the last call whose parameter has a placeholder in the
\* template text, as a dict
Matching(text, toPiece) ==
    [k \in {a \in Supplied : toPiece[a] \in Range(text)} |-> AsDict(bank.kwargs)[k]]

\* every occurrence of each placeholder that has a value replaced by it
Substituted(text, dict, toPiece) ==
    Flatten([i \in DOMAIN text |->
                IF \E k \in DOMAIN dict : toPiece[k] = text[i]
                THEN dict[CHOOSE k \in DOMAIN dict : toPiece[k] = text[i]]
                ELSE <<text[i]>>])

TxtPiece == [k \in Keys |-> Placeholder(k)]
MdPiece == [k \in Placeholders |-> k]

\* C17: an assembly given a parameter that has no placeholder in the
\* template (every placeholder having a value) does not fail: it warns
\* about each such parameter and returns the template with every occurrence
\* of the other parameters' placeholders replaced by their values; this for
\* format_prompt and for get_prompt.
C17_ExtraParameterWarns ==
    /\ (bank.op = "format_prompt" /\ bank.cache[bank.name].exists
        /\ Supplied \ InTxt(bank.name) # {}
        /\ txtFiles[bank.name] = bank.cache[bank.name]) =>
          /\ bank.exc = ""
          /\ bank.warned = {Placeholder(k) : k \in Supplied \ InTxt(bank.name)}
          /\ bank.ret = Substituted(txtFiles[bank.name].text,
                                    Matching(txtFiles[bank.name].text, TxtPiece), TxtPiece)
    /\ (bank.op = "get_prompt" /\ templates[bank.name].exists
        /\ FieldsOf(templates[bank.name].text) \subseteq Supplied
        /\ Supplied \ FieldsOf(templates[bank.name].text) # {}) =>
          /\ bank.exc = ""
          /\ bank.warned = Supplied \ FieldsOf(templates[bank.name].text)
          /\ bank.ret = Substituted(templates[bank.name].text,
                                    Matching(templates[bank.name].text, MdPiece), MdPiece)

\* the step is a call of PromptBank method op
Calls(op) == bank'.calls = bank.calls + 1 /\ bank'.op = op

C18_Step ==
    /\ \A n \in PromptNames :
          \* a cached text stays, whatever happens to the file, until clear_cache
          /\ (bank.cache[n].exists /\ ~Calls("clear_cache")) =>
                bank'.cache[n] = bank.cache[n]
          \* a load of a cached name returns the cached text
          /\ (bank.cache[n].exists /\ Calls("load_prompt") /\ bank'.name = n) =>
                (bank'.exc = "" /\ bank'.ret = bank.cache[n].text)
          \* a load of a name not cached reads the file as it is now, or fails
          \* and leaves the cache as it was
          /\ (~bank.cache[n].exists /\ Calls("load_prompt") /\ bank'.name = n) =>
                \/ /\ bank'.exc = ""
                   /\ txtFiles[n].exists
                   /\ bank'.ret = txtFiles[n].text
                   /\ bank'.cache = [bank.cache EXCEPT ![n] = File(txtFiles[n].text)]
                \/ /\ bank'.exc # ""
                   /\ bank'.cache = bank.cache
          /\ (~txtFiles[n].exists /\ ~bank.cache[n].exists
              /\ Calls("load_prompt") /\ bank'.name = n) => bank'.exc = "FileNotFoundError"
    /\ Calls("clear_cache") => bank'.cache = NoTxtFiles
    \* the files themselves are never written by the bank
    /\ bank' # bank => txtFiles' = txtFiles

\* C18: once load_prompt(name) has succeeded, every later load_prompt(name)
\* returns the text read at that load, however the file changes or is
\* deleted, until clear_cache; after clear_cache the next load_prompt(name)
\* reads the file again; a failed load_prompt leaves the cache unchanged.
C18_CacheUntilCleared == [][C18_Step]_vars

\* a load answered from the cache although the file no longer has that text
C18_Witness ==
    /\ bank.op = "load_prompt"
    /\ bank.calls >= 2
    /\ bank.exc = ""
    /\ bank.cache[bank.name].exists
    /\ bank.ret = bank.cache[bank.name].text
    /\ txtFiles[bank.name] # bank.cache[bank.name]

C20_MissingRootIsNotFound ==
    (phase = "serving" /\ ~corpus.exists) =>
        /\ files.status # -1 =>
              /\ files.status = 200
              /\ files.error = "Data directory 'data/raw_full' not found"
              /\ files.files = <<>>
        /\ stats.status # -1 =>
              /\ stats.status = 200
              /\ stats.error = "Data directory 'data/raw_full' not found"
              /\ stats.total_files = 0

\* both queries were answered for a missing root
C20_Witness ==
    /\ phase = "serving"
    /\ ~corpus.exists
    /\ files.status = 200
    /\ stats.status = 200

(***************************************************************************)
(* Properties of the order of the parameters of format_prompt.             *)
(***************************************************************************)
\* the same keyword arguments written in every order a caller may write them
Reorderings(kwargs) ==
    {[i \in DOMAIN kwargs |-> kwargs[order[i]]] : order \in Perms(DOMAIN kwargs)}

\* C21: the prompt format_prompt returns does not depend on the order of
\* its parameters: whatever the template and the name/value pairs, also
\* with a value that holds the placeholder of another parameter, every
\* ordering of the parameters gives the prompt that was returned, and that
\* prompt is the template with all its placeholders replaced at once.
C21_OrderIndependent ==
    (bank.op = "format_prompt" /\ bank.exc = "") =>
        /\ \A kwargs \in Reorderings(bank.kwargs) :
              FormatFrom(bank.cache[bank.name].text, kwargs, {}).text = bank.ret
        /\ bank.ret = Substituted(bank.cache[bank.name].text,
                                  AsDict(bank.kwargs), TxtPiece)

====
